---- MODULE Spec2Model ----
(***************************************************************************)
(* A model of ullm's provider dispatch and normalisation layer:            *)
(* the resolver (providers.py), the client registry (registry.py), the     *)
(* retry policy and the entry points (main.py), and the adapters           *)
(* (clients/openai.py, groq.py, anthropic.py, bedrock.py) with their       *)
(* transport clients, stream readers and error classification.             *)
(*                                                                         *)
(* Strings the code computes with (model strings, provider names) are      *)
(* sequences of one-character strings; enumerations (class names, error    *)
(* kinds, positions) are TLA+ strings.  An optional value is a sequence of *)
(* length at most one: <<>> is None, <<v>> is v.                           *)
(***************************************************************************)
EXTENDS Integers, Sequences, FiniteSets, TLC

VARIABLES
    registry,    \* _CLIENT_REGISTRY: provider name -> client class
    req,         \* the arguments of the call: model, stream, num_retries, messages,
                 \* response_format, temperature, max_tokens, tools, tool_choice, kwargs
    call_provider, \* completion's local `provider`: what parse_model_name returned (<<>> before)
    payload,     \* the wire payload the adapter prepared for the request
    mode,        \* "sync": completion(), "async": acompletion()
    pc,          \* position of the call
    adapter,     \* class of the client instance get_client built ("" before)
    model_name,  \* the model name handed to the adapter
    retrying,    \* the call runs inside the retry decorator
    attempts,    \* number of invocations of client.completion/acompletion
    outcomes,    \* what each finished non-streaming invocation raised (NoErr: it returned)
    delays,      \* the waits the retry policy slept, in order
    conn,        \* the call's transport client (httpx client / boto3 client)
    resp,        \* the streamed response: "none", "open", "closed"
    iter,        \* kind of iterator returned for a stream: "", "sync", "async"
    lines,       \* lines / events the stream reader has read, in order
    chunks,      \* chunks yielded to the consumer, in order
    returned,    \* what the entry point returned: "none", "response", "stream"
    raised,      \* the exception that reached the caller (NoErr: none)
    ended,       \* how a stream ended: "", "exhausted", "sentinel", "abandoned", "failed"
    tape,        \* what the environment answered, in order
    pos,         \* how much of the tape this call has consumed
    syncRun      \* outcome of the finished synchronous call, kept for the asynchronous one

vars == <<registry, req, call_provider, payload, mode, pc, adapter, model_name, retrying, attempts, outcomes, delays,
          conn, resp, iter, lines, chunks, returned, raised, ended, tape, pos, syncRun>>

(***************************************************************************)
(* Bounds of the model.                                                    *)
(***************************************************************************)
MaxRetries == 2
MaxLines == 2
MaxEvents == 5

(***************************************************************************)
(* Strings.                                                                *)
(***************************************************************************)
S_openai == <<"o","p","e","n","a","i">>
S_anthropic == <<"a","n","t","h","r","o","p","i","c">>
S_groq == <<"g","r","o","q">>
S_bedrock == <<"b","e","d","r","o","c","k">>
S_unknown == <<"u","n","k","n","o","w","n">>
S_gpt == <<"g","p","t">>
S_o1 == <<"o","1">>
S_o3 == <<"o","3">>
S_text_embedding == <<"t","e","x","t","-","e","m","b","e","d","d","i","n","g">>
S_claude == <<"c","l","a","u","d","e">>
S_llama == <<"l","l","a","m","a">>
S_mixtral == <<"m","i","x","t","r","a","l">>
S_gemma == <<"g","e","m","m","a">>
S_gpt_5 == <<"g","p","t","-","5">>

\* str.lower(), on ASCII letters
ascii_uppercase ==
    <<"A","B","C","D","E","F","G","H","I","J","K","L","M",
      "N","O","P","Q","R","S","T","U","V","W","X","Y","Z">>
ascii_lowercase ==
    <<"a","b","c","d","e","f","g","h","i","j","k","l","m",
      "n","o","p","q","r","s","t","u","v","w","x","y","z">>

lower_char(c) ==
    IF \E k \in 1..Len(ascii_uppercase) : ascii_uppercase[k] = c
    THEN ascii_lowercase[CHOOSE k \in 1..Len(ascii_uppercase) : ascii_uppercase[k] = c]
    ELSE c

\* a lower() that changes nothing
no_lower(s) == s

lower(s) == [i \in 1..Len(s) |-> lower_char(s[i])]

\* str.startswith(prefix)
startswith(s, prefix) ==
    /\ Len(prefix) <= Len(s)
    /\ SubSeq(s, 1, Len(prefix)) = prefix

\* a test that finds no "/"
never_has_slash(s) == FALSE

\* "/" in model
has_slash(s) == \E i \in 1..Len(s) : s[i] = "/"

\* index of the last "/" (model.rsplit("/", 1) cuts there)
last_slash(s) == CHOOSE i \in 1..Len(s) : s[i] = "/" /\ \A j \in (i+1)..Len(s) : s[j] # "/"

\* index of the first "/" (model.split("/", 1) cuts there)
first_slash(s) == CHOOSE i \in 1..Len(s) : s[i] = "/" /\ \A j \in 1..(i-1) : s[j] # "/"

(***************************************************************************)
(* exceptions.py: an exception is its class (kind), status code, model and *)
(* provider.  The six UllmException kinds are the canonical ones; any      *)
(* other kind is an exception of a library, raised as it is.               *)
(***************************************************************************)
CanonicalKinds ==
    {"Authentication", "BadRequest", "RateLimit", "Timeout", "API", "UnsupportedProvider"}

NoErr == [kind |-> "none", status |-> 0, model |-> <<>>, provider |-> <<>>]

AuthenticationError(model, provider) ==
    [kind |-> "Authentication", status |-> 401, model |-> model, provider |-> provider]

BadRequestError(model, provider) ==
    [kind |-> "BadRequest", status |-> 400, model |-> model, provider |-> provider]

RateLimitError(model, provider) ==
    [kind |-> "RateLimit", status |-> 429, model |-> model, provider |-> provider]

Timeout(model, provider) ==
    [kind |-> "Timeout", status |-> 504, model |-> model, provider |-> provider]

APIError(status, model, provider) ==
    [kind |-> "API", status |-> status, model |-> model, provider |-> provider]

UnsupportedProviderError(provider, model) ==
    [kind |-> "UnsupportedProvider", status |-> 0, model |-> model, provider |-> provider]

\* an exception of httpx, json or the interpreter: no UllmException
RawError(class) ==
    [kind |-> class, status |-> 0, model |-> <<>>, provider |-> <<>>]

(***************************************************************************)
(* providers.py                                                            *)
(***************************************************************************)
SUPPORTED_PROVIDERS == {S_openai, S_anthropic, S_groq, S_bedrock}

\* the prefix table, in the order of the dict literal
PROVIDER_PREFIXES ==
    << <<S_gpt, S_openai>>, <<S_o1, S_openai>>, <<S_o3, S_openai>>,
       <<S_text_embedding, S_openai>>, <<S_claude, S_anthropic>>,
       <<S_llama, S_groq>>, <<S_mixtral, S_groq>>, <<S_gemma, S_groq>> >>

\* the result of parse_model_name: a (provider, model_name) pair or the exception raised
parse_model_name(model) ==
    IF has_slash(model)
    THEN LET i == first_slash(model)
             provider == lower(SubSeq(model, 1, i - 1))
             name == SubSeq(model, i + 1, Len(model))
         IN  IF provider \notin SUPPORTED_PROVIDERS
             THEN [ok |-> FALSE, provider |-> provider, model_name |-> name,
                   err |-> UnsupportedProviderError(provider, model)]
             ELSE [ok |-> TRUE, provider |-> provider, model_name |-> name, err |-> NoErr]
    ELSE LET model_lower == lower(model)
             hits == {k \in 1..Len(PROVIDER_PREFIXES) :
                          startswith(model_lower, PROVIDER_PREFIXES[k][1])}
         IN  IF hits # {}
             THEN LET k == CHOOSE h \in hits : \A g \in hits : h <= g
                  IN  [ok |-> TRUE, provider |-> PROVIDER_PREFIXES[k][2],
                       model_name |-> model, err |-> NoErr]
             ELSE [ok |-> TRUE, provider |-> S_openai, model_name |-> model, err |-> NoErr]

(***************************************************************************)
(* registry.py and clients/__init__.py                                     *)
(***************************************************************************)
\* the classes whose definition carries @register_client, registered when
\* ullm.clients is imported
StartupRegistry == (S_anthropic :> "AnthropicClient") @@ (S_bedrock :> "BedrockClient")

\* register_client(provider)(client_class) for the classes that carry no decorator
LateRegistrations == { <<S_openai, "OpenAIClient">>, <<S_groq, "GroqClient">> }

\* get_client: the class to instantiate, or the exception raised
get_client(reg, provider) ==
    IF provider \in DOMAIN reg
    THEN [ok |-> TRUE, class |-> reg[provider], err |-> NoErr]
    ELSE [ok |-> FALSE, class |-> "", err |-> UnsupportedProviderError(provider, S_unknown)]

(***************************************************************************)
(* main.py: the retry policy, tenacity's retry(...) as configured by       *)
(* _create_retry_decorator.                                                *)
(***************************************************************************)
WaitMin == 1
WaitMax == 60

\* a retry predicate that retries after every exception
retry_on_any_exception(err) == TRUE

\* a retry predicate that also retries after a server-side APIError
retry_on_api_error(err) == err.kind \in {"RateLimit", "Timeout", "API"}

\* retry=retry_if_exception_type((RateLimitError, Timeout))
retry_if_exception_type(err) == err.kind \in {"RateLimit", "Timeout"}

\* a stop condition that allows num_retries retries after the first attempt
stop_after_retries(attempt_number, num_retries) == attempt_number > num_retries

\* stop=stop_after_attempt(num_retries): stop once that many attempts were made
stop_after_attempt(attempt_number, num_retries) == attempt_number >= num_retries

\* a policy that wraps the last exception in tenacity's RetryError
raise_retry_error(last_err) == RawError("RetryError")

\* reraise=True: when the attempts are used up, the exception of the last
\* attempt is raised as it is
reraise(last_err) == last_err

Pow2(n) == IF n <= 0 THEN 1 ELSE 2 ^ n

Min(a, b) == IF a <= b THEN a ELSE b
Max(a, b) == IF a >= b THEN a ELSE b

\* an exponential wait without its max
wait_exponential_uncapped(attempt_number) == Max(WaitMin, Pow2(attempt_number - 1))

\* wait=wait_exponential(multiplier=1, min=1, max=60), after attempt attempt_number
wait_exponential(attempt_number) == Max(WaitMin, Min(Pow2(attempt_number - 1), WaitMax))

(***************************************************************************)
(* Wire data.  An event is the decoded JSON object of one stream line; a   *)
(* line is what the transport hands the reader: whether it starts with     *)
(* "data: ", and whether the rest is a JSON object, the text [DONE], or    *)
(* something json.loads rejects.                                           *)
(***************************************************************************)
\* the "usage" object of an OpenAI body: the counts it holds; no count at
\* all is a missing, null or empty "usage"
NoWireUsage == [prompt_tokens |-> <<>>, completion_tokens |-> <<>>, total_tokens |-> <<>>]
WireUsage(prompt, completion, total) ==
    [prompt_tokens |-> prompt, completion_tokens |-> completion, total_tokens |-> total]

NoEvent ==
    [type |-> "", sub |-> "", text |-> <<>>, stop |-> <<>>, usage |-> <<>>, id |-> "",
     wire_usage |-> NoWireUsage]

\* Anthropic / Bedrock events
EvMessageStart == [NoEvent EXCEPT !.type = "message_start", !.id = "msg_1"]
EvBlockStart(btype) == [NoEvent EXCEPT !.type = "content_block_start", !.sub = btype]
EvBlockDelta(dtype, text) ==
    [NoEvent EXCEPT !.type = "content_block_delta", !.sub = dtype, !.text = <<text>>]
EvMessageDelta(stop, usage) ==
    [NoEvent EXCEPT !.type = "message_delta", !.stop = <<stop>>, !.usage = usage]
EvPing == [NoEvent EXCEPT !.type = "ping"]

\* an OpenAI chat.completion.chunk object with one choice
EvChunk(role, content, finish) ==
    [NoEvent EXCEPT !.type = "chunk", !.sub = role, !.text = content, !.stop = finish,
                    !.id = "chatcmpl-1"]

\* the chunk that carries the "usage" object
EvUsageChunk(wire_usage) == [EvChunk("", <<>>, <<>>) EXCEPT !.wire_usage = wire_usage]

NoLine == [data |-> FALSE, payload |-> "", ev |-> NoEvent]
DataLine(ev) == [data |-> TRUE, payload |-> "json", ev |-> ev]
MalformedLine == [data |-> TRUE, payload |-> "malformed", ev |-> NoEvent]
DoneLine == [data |-> TRUE, payload |-> "done", ev |-> NoEvent]
\* a line without the "data: " prefix ("event: ...", a comment, an empty line)
OtherLine == [data |-> FALSE, payload |-> "json", ev |-> NoEvent]

(***************************************************************************)
(* types.py: StreamChunk with its one StreamChoice and Delta, and Usage.   *)
(***************************************************************************)
Usage(prompt, completion, total) ==
    [prompt_tokens |-> prompt, completion_tokens |-> completion, total_tokens |-> total]

StreamChunk(id, role, content, finish_reason, usage) ==
    [id |-> id, role |-> role, content |-> content, finish_reason |-> finish_reason,
     usage |-> usage]

(***************************************************************************)
(* clients/base.py                                                         *)
(***************************************************************************)
\* a classification without the branch for 504
handle_error_without_504(status_code, model, provider) ==
    IF status_code = 401 THEN AuthenticationError(model, provider)
    ELSE IF status_code = 400 THEN BadRequestError(model, provider)
    ELSE IF status_code = 429 THEN RateLimitError(model, provider)
    ELSE APIError(status_code, model, provider)

\* BaseClient._handle_error: the exception raised for a non-200 status
handle_error(status_code, model, provider) ==
    IF status_code = 401 THEN AuthenticationError(model, provider)
    ELSE IF status_code = 400 THEN BadRequestError(model, provider)
    ELSE IF status_code = 429 THEN RateLimitError(model, provider)
    ELSE IF status_code = 504 THEN Timeout(model, provider)
    ELSE APIError(status_code, model, provider)

(***************************************************************************)
(* The adapters.                                                           *)
(***************************************************************************)
HttpClasses == {"OpenAIClient", "GroqClient", "AnthropicClient"}
ClientClasses == HttpClasses \cup {"BedrockClient"}

\* the provider literal each class passes to _handle_error; GroqClient
\* inherits completion and _stream_completion from OpenAIClient
provider_literal(class) ==
    IF class = "AnthropicClient" THEN S_anthropic
    ELSE IF class = "BedrockClient" THEN S_bedrock
    ELSE S_openai

\* what an HTTP exchange can come to: a response with a status, a response
\* whose body is no JSON, or an exception of the transport
HttpStatuses == {"200", "201", "400", "401", "404", "429", "504", "500"}
HttpFailures == {"ConnectError", "ReadTimeout"}
HttpOutcomes == HttpStatuses \cup HttpFailures \cup {"BadBody"}

status_code(k) ==
    CASE k = "400" -> 400 [] k = "401" -> 401 [] k = "429" -> 429
      [] k = "504" -> 504 [] k = "500" -> 500 [] k = "201" -> 201
      [] k = "404" -> 404 [] OTHER -> 200

\* OpenAIClient.completion / AnthropicClient.completion (and acompletion),
\* the non-streaming branch inside the with block
http_completion(class, k, model) ==
    IF k \in HttpFailures
    THEN [ok |-> FALSE, err |-> RawError(k)]
    ELSE IF status_code(k) # 200
    THEN [ok |-> FALSE, err |-> handle_error(status_code(k), model, provider_literal(class))]
    ELSE IF k = "BadBody"
    THEN [ok |-> FALSE, err |-> RawError("JSONDecodeError")]
    ELSE [ok |-> TRUE, err |-> NoErr]

\* what boto3 can come to: no boto3 installed, a result, or an exception
\* whose message names the given exception (OtherException: none of them)
BedrockExceptions ==
    {"AuthenticationException", "UnrecognizedClientException", "ValidationException",
     "ThrottlingException", "OtherException"}
BedrockOutcomes == {"NoBoto3", "ok", "BadBody"} \cup BedrockExceptions

\* BedrockClient._get_boto3_client when boto3 cannot be imported
no_boto3_error == BadRequestError(S_bedrock, S_bedrock)

\* the except branch of BedrockClient.completion
classify_bedrock(error_msg, model) ==
    IF error_msg = "AuthenticationException" \/ error_msg = "UnrecognizedClientException"
    THEN AuthenticationError(model, S_bedrock)
    ELSE IF error_msg = "ValidationException" THEN BadRequestError(model, S_bedrock)
    ELSE IF error_msg = "ThrottlingException" THEN RateLimitError(model, S_bedrock)
    ELSE APIError(500, model, S_bedrock)

\* the except branch of BedrockClient._stream_completion
classify_bedrock_stream(error_msg, model) ==
    IF error_msg = "AuthenticationException"
    THEN AuthenticationError(model, S_bedrock)
    ELSE APIError(500, model, S_bedrock)

\* BedrockClient.completion, the non-streaming branch
bedrock_completion(k, model) ==
    IF k = "NoBoto3" THEN [ok |-> FALSE, err |-> no_boto3_error]
    ELSE IF k = "ok" THEN [ok |-> TRUE, err |-> NoErr]
    ELSE [ok |-> FALSE, err |-> classify_bedrock(k, model)]

(***************************************************************************)
(* Request preparation.  A message is its role and its content (a string); *)
(* a payload is the JSON object sent, an absent key being <<>>.            *)
(***************************************************************************)
Message(role, content) == [role |-> role, content |-> content]

NoPayload ==
    [prepared |-> FALSE, model |-> <<>>, messages |-> <<>>, stream |-> <<>>,
     system |-> <<>>, response_format |-> <<>>, temperature |-> <<>>,
     max_tokens |-> <<>>, max_completion_tokens |-> <<>>, tools |-> <<>>,
     tool_choice |-> <<>>, top_k |-> <<>>, anthropic_version |-> <<>>]

\* a tool_choice: a string (v is the string) or a dict (v is its "type")
ToolChoiceStr(v) == [str |-> TRUE, v |-> v]
ToolChoiceDict(v) == [str |-> FALSE, v |-> v]

\* a Tool: its function's name and parameters
Tool(name, parameters) == [name |-> name, parameters |-> parameters]

\* the extra keyword parameters of a call (**kwargs): the keys given, the
\* others <<>>.  No name of a parameter of completion can be a key.
NoKwargs == [system |-> <<>>, top_k |-> <<>>]

\* payload.update(kwargs)
payload_update(p, kwargs) ==
    [p EXCEPT !.system = IF kwargs.system # <<>> THEN kwargs.system ELSE @,
              !.top_k = IF kwargs.top_k # <<>> THEN kwargs.top_k ELSE @]

\* the truth value Python gives an Optional[str]
truthy(opt) == opt # <<>> /\ opt[1] # <<>>

\* "\n\nPlease respond with valid JSON only.", the sentence as one letter
json_instruction == <<"\n", "\n", "J">>

\* a strip() that changes nothing
no_strip(s) == s

\* str.strip()
RECURSIVE strip(_)
strip(s) ==
    IF s = <<>> THEN s
    ELSE IF Head(s) \in {"\n", " "} THEN strip(Tail(s))
    ELSE IF s[Len(s)] \in {"\n", " "} THEN strip(SubSeq(s, 1, Len(s) - 1))
    ELSE s

\* the loop of AnthropicClient._convert_messages, and the same loop in
\* BedrockClient._prepare_bedrock_request: the system message (that of the
\* last system-role entry, None without one) and the other messages
RECURSIVE convert_messages(_)
convert_messages(messages) ==
    IF messages = <<>> THEN [system |-> <<>>, messages |-> <<>>]
    ELSE LET before == convert_messages(SubSeq(messages, 1, Len(messages) - 1))
             msg == messages[Len(messages)]
         IN  IF msg.role = "system"
             THEN [before EXCEPT !.system = <<msg.content>>]
             ELSE [before EXCEPT !.messages = Append(@, msg)]

\* tool.model_dump(): the tool in OpenAI's format
openai_tool(tool) == [format |-> "function", name |-> tool.name, schema |-> tool.parameters]

\* the dict _convert_tools builds of a tool: name, description, input_schema
anthropic_tool(tool) == [format |-> "input_schema", name |-> tool.name, schema |-> tool.parameters]

\* OpenAIClient._prepare_request
openai_prepare_request(model, r) ==
    LET reasoning == \E q \in {S_o1, S_o3, S_gpt_5} : startswith(model, q)
        canonical ==
            [NoPayload EXCEPT
                !.prepared = TRUE,
                !.model = <<model>>,
                !.messages = r.messages,
                !.stream = <<r.stream>>,
                !.temperature = r.temperature,
                !.max_completion_tokens = IF reasoning THEN r.max_tokens ELSE <<>>,
                !.max_tokens = IF reasoning THEN <<>> ELSE r.max_tokens,
                !.tools = IF r.tools # <<>> /\ r.tools[1] # <<>>
                          THEN << [i \in 1..Len(r.tools[1]) |-> openai_tool(r.tools[1][i])] >>
                          ELSE <<>>,
                !.tool_choice = r.tool_choice,
                !.response_format = r.response_format]
    IN  payload_update(canonical, r.kwargs)

\* the tool_choice AnthropicClient._prepare_request writes
anthropic_tool_choice(tool_choice) ==
    IF tool_choice = <<>> THEN <<>>
    ELSE IF tool_choice[1].str
    THEN IF tool_choice[1].v = "auto" THEN << ToolChoiceDict("auto") >>
         ELSE IF tool_choice[1].v = "required" \/ tool_choice[1].v = "any"
         THEN << ToolChoiceDict("any") >>
         ELSE <<>>
    ELSE tool_choice

\* `max_tokens or 4096`
max_tokens_or_default(max_tokens) ==
    IF max_tokens # <<>> /\ max_tokens[1] # 0 THEN max_tokens[1] ELSE 4096

\* AnthropicClient._prepare_request
anthropic_prepare_request(model, r) ==
    LET c == convert_messages(r.messages)
        canonical ==
            [NoPayload EXCEPT
                !.prepared = TRUE,
                !.model = <<model>>,
                !.messages = c.messages,
                !.max_tokens = << max_tokens_or_default(r.max_tokens) >>,
                !.stream = <<r.stream>>,
                !.system = IF r.response_format # <<>>
                           THEN IF truthy(c.system) THEN << c.system[1] \o json_instruction >>
                                ELSE << strip(json_instruction) >>
                           ELSE IF truthy(c.system) THEN c.system ELSE <<>>,
                !.temperature = r.temperature,
                !.tools = IF r.tools # <<>> /\ r.tools[1] # <<>>
                          THEN << [i \in 1..Len(r.tools[1]) |-> anthropic_tool(r.tools[1][i])] >>
                          ELSE <<>>,
                !.tool_choice = anthropic_tool_choice(r.tool_choice)]
    IN  payload_update(canonical, r.kwargs)

\* BedrockClient._prepare_bedrock_request: tool_choice and response_format
\* are not given to it, its kwargs are not used
bedrock_prepare_request(model, r) ==
    LET c == convert_messages(r.messages)
    IN  [NoPayload EXCEPT
            !.prepared = TRUE,
            !.messages = c.messages,
            !.max_tokens = << max_tokens_or_default(r.max_tokens) >>,
            !.system = IF truthy(c.system) THEN c.system ELSE <<>>,
            !.temperature = r.temperature,
            !.tools = IF r.tools # <<>> /\ r.tools[1] # <<>>
                      THEN << [i \in 1..Len(r.tools[1]) |-> anthropic_tool(r.tools[1][i])] >>
                      ELSE <<>>,
            !.anthropic_version = <<"bedrock-2023-05-31">>]

\* the payload an invocation of class prepares for request r
prepare_request(class, model, r) ==
    IF class = "AnthropicClient" THEN anthropic_prepare_request(model, r)
    ELSE IF class = "BedrockClient" THEN bedrock_prepare_request(model, r)
    ELSE openai_prepare_request(model, r)

(***************************************************************************)
(* Stream translation: one event to at most one chunk.                     *)
(***************************************************************************)
\* a translation that loses the fragment
text_dropped(ev) == <<>>

\* dict.get("text", ""): the fragment, "" when the key is missing
text_or_empty(ev) == IF ev.text = <<>> THEN <<>> ELSE ev.text[1]

\* dict.get(key, default)
dict_get(value, default) == IF value = <<>> THEN default ELSE value[1]

\* `if usage_data:` and the Usage built of it, in OpenAIClient._parse_response
\* and _parse_stream_chunk alike
openai_usage(usage_data) ==
    IF usage_data # NoWireUsage
    THEN << Usage(dict_get(usage_data.prompt_tokens, 0),
                  dict_get(usage_data.completion_tokens, 0),
                  dict_get(usage_data.total_tokens, 0)) >>
    ELSE <<>>

\* OpenAIClient._parse_stream_chunk
openai_parse_stream_chunk(data) ==
    << StreamChunk(data.id, IF data.sub = "" THEN <<>> ELSE <<data.sub>>,
                   data.text, data.stop, openai_usage(data.wire_usage)) >>

\* a translator that puts a finish_reason on the chunk of a text fragment
anthropic_parse_stream_chunk_finishing(data) ==
    IF data.type = "message_start"
    THEN << StreamChunk(data.id, <<>>, <<>>, <<>>, <<>>) >>
    ELSE IF data.type = "content_block_start"
    THEN IF data.sub = "text"
         THEN << StreamChunk("", <<"assistant">>, << <<>> >>, <<>>, <<>>) >>
         ELSE <<>>
    ELSE IF data.type = "content_block_delta"
    THEN IF data.sub = "text_delta"
         THEN << StreamChunk("", <<>>, << text_or_empty(data) >>, <<"stop">>, <<>>) >>
         ELSE <<>>
    ELSE IF data.type = "message_delta"
    THEN << StreamChunk("", <<>>, <<>>, data.stop,
                        IF data.usage # <<>>
                        THEN << Usage(0, data.usage[1], data.usage[1]) >>
                        ELSE <<>>) >>
    ELSE <<>>

\* AnthropicClient._parse_stream_chunk: <<>> is None
anthropic_parse_stream_chunk(data) ==
    IF data.type = "message_start"
    THEN << StreamChunk(data.id, <<>>, <<>>, <<>>, <<>>) >>
    ELSE IF data.type = "content_block_start"
    THEN IF data.sub = "text"
         THEN << StreamChunk("", <<"assistant">>, << <<>> >>, <<>>, <<>>) >>
         ELSE <<>>
    ELSE IF data.type = "content_block_delta"
    THEN IF data.sub = "text_delta"
         THEN << StreamChunk("", <<>>, << text_or_empty(data) >>, <<>>, <<>>) >>
         ELSE <<>>
    ELSE IF data.type = "message_delta"
    THEN << StreamChunk("", <<>>, <<>>, data.stop,
                        IF data.usage # <<>>
                        THEN << Usage(0, data.usage[1], data.usage[1]) >>
                        ELSE <<>>) >>
    ELSE <<>>

\* BedrockClient._parse_bedrock_stream_chunk
bedrock_parse_stream_chunk(data) ==
    IF data.type = "message_start"
    THEN << StreamChunk(data.id, <<>>, <<>>, <<>>, <<>>) >>
    ELSE IF data.type = "content_block_delta"
    THEN IF data.sub = "text_delta"
         THEN << StreamChunk("", <<>>, << text_or_empty(data) >>, <<>>, <<>>) >>
         ELSE <<>>
    ELSE IF data.type = "message_delta"
    THEN << StreamChunk("", <<>>, <<>>, data.stop, <<>>) >>
    ELSE <<>>

(***************************************************************************)
(* The non-streaming parse.  A content block of the response body is       *)
(* [type, text]; the Message's content is the text of the text blocks, or  *)
(* None when that is empty.                                                *)
(***************************************************************************)
RECURSIVE text_of_blocks(_)
text_of_blocks(content_blocks) ==
    IF content_blocks = <<>> THEN <<>>
    ELSE (IF Head(content_blocks).type = "text" THEN Head(content_blocks).text ELSE <<>>)
         \o text_of_blocks(Tail(content_blocks))

\* `text_content if text_content else None`
content_or_none(text_content) == IF text_content # <<>> THEN <<text_content>> ELSE <<>>

\* AnthropicClient._parse_response: the content of the Message
anthropic_parse_response(content_blocks) == content_or_none(text_of_blocks(content_blocks))

\* BedrockClient._parse_bedrock_response: the content of the Message
bedrock_parse_response(content_blocks) == content_or_none(text_of_blocks(content_blocks))

(***************************************************************************)
(* The body of the readers' loops: what one line does.  act is "yield"     *)
(* (chunk holds the chunk), "skip", "stop" (the loop is left) or "raise".  *)
(***************************************************************************)
Step(act, chunk, err) == [act |-> act, chunk |-> chunk, err |-> err]

\* a reader whose except branch leaves the loop
openai_read_line_breaking(line) ==
    IF ~line.data THEN Step("skip", <<>>, NoErr)
    ELSE IF line.payload = "done" THEN Step("stop", <<>>, NoErr)
    ELSE IF line.payload = "malformed" THEN Step("stop", <<>>, NoErr)
    ELSE Step("yield", openai_parse_stream_chunk(line.ev), NoErr)

\* a reader that takes [DONE] for one more line to skip
openai_read_line_ignoring_done(line) ==
    IF ~line.data THEN Step("skip", <<>>, NoErr)
    ELSE IF line.payload # "json" THEN Step("skip", <<>>, NoErr)
    ELSE Step("yield", openai_parse_stream_chunk(line.ev), NoErr)

\* OpenAIClient._stream_completion / _astream_completion, one line
openai_read_line(line) ==
    IF ~line.data THEN Step("skip", <<>>, NoErr)
    ELSE IF line.payload = "done" THEN Step("stop", <<>>, NoErr)
    ELSE IF line.payload = "malformed" THEN Step("skip", <<>>, NoErr)
    ELSE Step("yield", openai_parse_stream_chunk(line.ev), NoErr)

\* a reader that stops at the first event its translator gives no chunk for
anthropic_read_line_stopping(line) ==
    IF ~line.data THEN Step("skip", <<>>, NoErr)
    ELSE IF line.payload # "json" THEN Step("skip", <<>>, NoErr)
    ELSE LET chunk == anthropic_parse_stream_chunk(line.ev)
         IN  IF chunk # <<>> THEN Step("yield", chunk, NoErr)
             ELSE Step("stop", <<>>, NoErr)

\* AnthropicClient._stream_completion / _astream_completion, one line
anthropic_read_line(line) ==
    IF ~line.data THEN Step("skip", <<>>, NoErr)
    ELSE IF line.payload # "json" THEN Step("skip", <<>>, NoErr)
    ELSE LET chunk == anthropic_parse_stream_chunk(line.ev)
         IN  IF chunk # <<>> THEN Step("yield", chunk, NoErr)
             ELSE Step("skip", <<>>, NoErr)

\* BedrockClient._stream_completion, one event: json.loads is inside the
\* try whose except turns every exception into a classified error
bedrock_read_event(line, model) ==
    IF line.payload # "json"
    THEN Step("raise", <<>>, classify_bedrock_stream("JSONDecodeError", model))
    ELSE LET chunk == bedrock_parse_stream_chunk(line.ev)
         IN  IF chunk # <<>> THEN Step("yield", chunk, NoErr)
             ELSE Step("skip", <<>>, NoErr)

read_line(class, line, model) ==
    IF class = "BedrockClient" THEN bedrock_read_event(line, model)
    ELSE IF class = "AnthropicClient" THEN anthropic_read_line(line)
    ELSE openai_read_line(line)

(***************************************************************************)
(* The environment.  Every answer of the outside world (the outcome of an  *)
(* exchange, the next line of a stream, the consumer giving up) is written *)
(* to the tape when it is given; the asynchronous call that follows the    *)
(* synchronous one is given the same answers in the same order.            *)
(***************************************************************************)
T(k) == [k |-> k, line |-> NoLine]
TL(line) == [k |-> "line", line |-> line]

Offered(S) == IF pos < Len(tape) THEN S \cap {tape[pos + 1]} ELSE S

Answer(o) ==
    /\ tape' = IF pos < Len(tape) THEN tape ELSE Append(tape, o)
    /\ pos' = pos + 1

(***************************************************************************)
(* The model strings and the lines the calls of Spec are given.            *)
(***************************************************************************)
ModelStrings ==
    { <<"o","p","e","n","a","i","/","g","p","t">>,
      <<"G","r","o","q","/","l","l","a","m","a">>,
      <<"a","n","t","h","r","o","p","i","c","/","c","l","a","u","d","e">>,
      <<"b","e","d","r","o","c","k","/","c","l","a","u","d","e">>,
      <<"C","l","a","u","d","e">>,
      <<"z","z","z","/","x">> }

CallLines(class, ls) ==
    IF Len(ls) >= MaxLines THEN {}
    ELSE IF class = "BedrockClient"
    THEN {DataLine(EvBlockDelta("text_delta", <<"a">>)), MalformedLine}
    ELSE IF class = "AnthropicClient"
    THEN {DataLine(EvBlockDelta("text_delta", <<"a">>)), MalformedLine,
          DataLine(EvMessageDelta("end_turn", <<>>))}
    ELSE {DataLine(EvChunk("", << <<"a">> >>, <<>>)), MalformedLine, DoneLine}

(***************************************************************************)
(* The call.                                                               *)
(***************************************************************************)
\* the state when completion(**request) is entered, for a request among
\* requests
CallStart(requests) ==
    /\ registry = StartupRegistry
    /\ req \in requests
    /\ call_provider = <<>>
    /\ payload = NoPayload
    /\ mode = "sync"
    /\ pc = "start"
    /\ adapter = ""
    /\ model_name = <<>>
    /\ retrying = FALSE
    /\ attempts = 0
    /\ outcomes = <<>>
    /\ delays = <<>>
    /\ conn = "none"
    /\ resp = "none"
    /\ iter = ""
    /\ lines = <<>>
    /\ chunks = <<>>
    /\ returned = "none"
    /\ raised = NoErr
    /\ ended = ""
    /\ tape = <<>>
    /\ pos = 0
    /\ syncRun = [done |-> FALSE, returned |-> "none", raised |-> NoErr, chunks |-> <<>>,
                  attempts |-> 0, iter |-> "", ended |-> ""]

\* messages=[{"role": "user", "content": "u"}]
OneUserMessage == << Message("user", <<"u">>) >>

\* the parameters of a call that gives none but model and messages
NoParams ==
    [temperature |-> <<>>, max_tokens |-> <<>>, tools |-> <<>>, tool_choice |-> <<>>,
     kwargs |-> NoKwargs]

\* the requests with a model of models, ..., and the parameters of params
Requests(models, streams, retries, message_lists, response_formats, params) ==
    { [model |-> m, stream |-> s, num_retries |-> n, messages |-> ms, response_format |-> f,
       temperature |-> p.temperature, max_tokens |-> p.max_tokens, tools |-> p.tools,
       tool_choice |-> p.tool_choice, kwargs |-> p.kwargs] :
        m \in models, s \in streams, n \in retries, ms \in message_lists,
        f \in response_formats, p \in params }

Init ==
    CallStart(Requests(ModelStrings, BOOLEAN, 0..MaxRetries, {OneUserMessage}, {<<>>},
                       {NoParams}))

\* register_client(provider)(client_class), before the call
Register(provider, class) ==
    /\ pc = "start"
    /\ mode = "sync"
    /\ provider \notin DOMAIN registry
    /\ registry' = (provider :> class) @@ registry
    /\ UNCHANGED <<call_provider, payload, req, mode, pc, adapter, model_name, retrying, attempts, outcomes, delays, conn,
                   resp, iter, lines, chunks, returned, raised, ended, tape, pos, syncRun>>

\* the condition without its `and not stream`
retry_wrapped_any_call(num_retries, stream) == num_retries > 0

\* `if num_retries > 0 and not stream`: the adapter call is wrapped by the
\* retry decorator
retry_wrapped(num_retries, stream) == num_retries > 0 /\ ~stream

\* completion / acompletion up to the choice between the retry-wrapped and
\* the plain adapter call: parse_model_name, then get_client
Dispatch ==
    /\ pc = "start"
    /\ LET r == parse_model_name(req.model)
           g == get_client(registry, r.provider)
       IN  IF ~r.ok
           THEN /\ raised' = r.err
                /\ pc' = "done"
                /\ UNCHANGED <<call_provider, adapter, model_name, retrying>>
           ELSE IF ~g.ok
           THEN /\ raised' = g.err
                /\ call_provider' = r.provider
                /\ model_name' = r.model_name
                /\ pc' = "done"
                /\ UNCHANGED <<adapter, retrying>>
           ELSE /\ adapter' = g.class
                /\ call_provider' = r.provider
                /\ model_name' = r.model_name
                /\ retrying' = retry_wrapped(req.num_retries, req.stream)
                /\ pc' = "call"
                /\ UNCHANGED raised
    /\ UNCHANGED <<payload, registry, req, mode, attempts, outcomes, delays, conn, resp, iter, lines, chunks,
                   returned, ended, tape, pos, syncRun>>

\* the iterator a streaming client.completion / client.acompletion returns:
\* BedrockClient.acompletion runs completion in the executor and returns
\* the generator completion built
stream_iterator(class, m) ==
    IF class = "BedrockClient" THEN "sync"
    ELSE IF m = "async" THEN "async" ELSE "sync"

\* the transport client after a streaming client.completion has returned:
\* the with block of the HTTP adapters is left by the return
client_after_return(class) == IF class \in HttpClasses THEN "closed" ELSE "none"

\* one invocation of client.completion / client.acompletion, up to its
\* first exchange: the HTTP adapters enter `with httpx.Client(...)`; for a
\* stream they return the generator, not yet started
AdapterCall ==
    /\ pc = "call"
    /\ attempts' = attempts + 1
    /\ payload' = IF adapter \in HttpClasses
                  THEN prepare_request(adapter, model_name, req) ELSE payload
    /\ IF req.stream
       THEN /\ returned' = "stream"
            /\ iter' = stream_iterator(adapter, mode)
            /\ conn' = client_after_return(adapter)
            /\ pc' = "consume"
       ELSE /\ conn' = IF adapter \in HttpClasses THEN "open" ELSE conn
            /\ pc' = "post"
            /\ UNCHANGED <<returned, iter>>
    /\ UNCHANGED <<call_provider, registry, req, mode, adapter, model_name, retrying, outcomes, delays, resp, lines,
                   chunks, raised, ended, tape, pos, syncRun>>

\* the transport client when a non-streaming invocation is over: the with
\* block closes the httpx client; the boto3 client, once built, is kept
client_after_call(class, k, c) ==
    IF class \in HttpClasses THEN "closed"
    ELSE IF k = "NoBoto3" THEN c
    ELSE "open"

\* the rest of a non-streaming invocation and what the retry policy makes
\* of it: return the response, raise, or wait for another attempt
AdapterPost ==
    /\ pc = "post"
    /\ \E o \in Offered({T(k) : k \in IF adapter \in HttpClasses
                                       THEN HttpOutcomes ELSE BedrockOutcomes}) :
          /\ Answer(o)
          /\ conn' = client_after_call(adapter, o.k, conn)
          /\ payload' = IF adapter = "BedrockClient" /\ o.k # "NoBoto3"
                        THEN prepare_request(adapter, model_name, req) ELSE payload
          /\ outcomes' = Append(outcomes, IF adapter \in HttpClasses
                                          THEN http_completion(adapter, o.k, model_name).err
                                          ELSE bedrock_completion(o.k, model_name).err)
          /\ LET res == IF adapter \in HttpClasses
                        THEN http_completion(adapter, o.k, model_name)
                        ELSE bedrock_completion(o.k, model_name)
             IN  IF res.ok
                 THEN /\ returned' = "response"
                      /\ pc' = "done"
                      /\ UNCHANGED raised
                 ELSE IF /\ retrying
                         /\ retry_if_exception_type(res.err)
                         /\ ~stop_after_attempt(attempts, req.num_retries)
                 THEN /\ pc' = "wait"
                      /\ UNCHANGED <<returned, raised>>
                 ELSE /\ raised' = IF retrying /\ retry_if_exception_type(res.err)
                                    THEN reraise(res.err) ELSE res.err
                      /\ pc' = "done"
                      /\ UNCHANGED returned
    /\ UNCHANGED <<call_provider, registry, req, mode, adapter, model_name, retrying, attempts, delays,
                   resp, iter, lines, chunks, ended, syncRun>>

\* the sleep of the retry policy between two attempts
Wait ==
    /\ pc = "wait"
    /\ delays' = Append(delays, wait_exponential(attempts))
    /\ pc' = "call"
    /\ UNCHANGED <<call_provider, payload, registry, req, mode, adapter, model_name, retrying, attempts, outcomes, conn, resp,
                   iter, lines, chunks, returned, raised, ended, tape, pos, syncRun>>

(***************************************************************************)
(* Streams.  The generator a streaming call returned starts at the         *)
(* consumer's first read.                                                  *)
(***************************************************************************)
\* what opening the stream can come to.  The HTTP generators open it on the
\* client their caller's with block has already closed: the transport either
\* refuses the closed client (ClosedClient) or carries the request out
StreamOpenOutcomes(class) ==
    IF class \in HttpClasses
    THEN {"ClosedClient"} \cup HttpStatuses \cup HttpFailures
    ELSE {"NoBoto3", "ok"} \cup BedrockExceptions

\* _stream_completion / _astream_completion up to the loop over the lines
stream_open(class, k, model) ==
    IF class \in HttpClasses
    THEN IF k = "ClosedClient" THEN [ok |-> FALSE, err |-> RawError("RuntimeError")]
         ELSE IF k \in HttpFailures THEN [ok |-> FALSE, err |-> RawError(k)]
         ELSE IF status_code(k) # 200
         THEN [ok |-> FALSE,
               err |-> handle_error(status_code(k), model, provider_literal(class))]
         ELSE [ok |-> TRUE, err |-> NoErr]
    ELSE IF k = "NoBoto3" THEN [ok |-> FALSE, err |-> no_boto3_error]
    ELSE IF k = "ok" THEN [ok |-> TRUE, err |-> NoErr]
    ELSE [ok |-> FALSE, err |-> classify_bedrock_stream(k, model)]

\* the exception a failed read of the stream ends in: httpx raises its own,
\* BedrockClient._stream_completion classifies what boto3 raised
read_failure(class, model) ==
    IF class = "BedrockClient" THEN classify_bedrock_stream("OtherException", model)
    ELSE RawError("ReadError")

\* the streamed response once the generator is left (end, break, exception,
\* close): `with client.stream(...) as response` closes it
response_after_exit(class, r) == IF class \in HttpClasses THEN "closed" ELSE r

\* the consumer's first read: the generator runs up to its loop
StreamOpen ==
    /\ pc = "consume"
    /\ ~(mode = "async" /\ iter = "sync")
    /\ \E o \in Offered({T(k) : k \in StreamOpenOutcomes(adapter)}) :
          /\ Answer(o)
          /\ conn' = IF adapter = "BedrockClient" /\ o.k # "NoBoto3" THEN "open" ELSE conn
          /\ payload' = IF adapter = "BedrockClient" /\ o.k # "NoBoto3"
                        THEN prepare_request(adapter, model_name, req) ELSE payload
          /\ LET res == stream_open(adapter, o.k, model_name)
             IN  IF res.ok
                 THEN /\ resp' = IF adapter \in HttpClasses THEN "open" ELSE resp
                      /\ pc' = "read"
                      /\ UNCHANGED <<raised, ended>>
                 ELSE /\ raised' = res.err
                      /\ ended' = "failed"
                      /\ pc' = "done"
                      /\ UNCHANGED resp
    /\ UNCHANGED <<call_provider, registry, req, mode, adapter, model_name, retrying, attempts, outcomes, delays,
                   iter, lines, chunks, returned, syncRun>>

\* `async for` over what acompletion returned, when that is a plain
\* generator: it has no __aiter__
AsyncFor ==
    /\ pc = "consume"
    /\ mode = "async" /\ iter = "sync"
    /\ pos < Len(tape) => tape[pos + 1].k # "abandon"
    /\ raised' = RawError("TypeError")
    /\ ended' = "failed"
    /\ pc' = "done"
    /\ UNCHANGED <<call_provider, payload, registry, req, mode, adapter, model_name, retrying, attempts, outcomes, delays,
                   conn, resp, iter, lines, chunks, returned, tape, pos, syncRun>>

\* one turn of the reader's loop: the next line (one of next_lines), the end
\* of the stream, or a failed read
StreamRead(next_lines) ==
    /\ pc = "read"
    /\ \E o \in Offered({TL(l) : l \in next_lines}
                        \cup {T("eof"), T("ReadError")}) :
          /\ Answer(o)
          /\ IF o.k = "eof"
             THEN /\ ended' = "exhausted"
                  /\ resp' = response_after_exit(adapter, resp)
                  /\ pc' = "done"
                  /\ UNCHANGED <<lines, chunks, raised>>
             ELSE IF o.k = "ReadError"
             THEN /\ raised' = read_failure(adapter, model_name)
                  /\ ended' = "failed"
                  /\ resp' = response_after_exit(adapter, resp)
                  /\ pc' = "done"
                  /\ UNCHANGED <<lines, chunks>>
             ELSE LET step == read_line(adapter, o.line, model_name)
                  IN  /\ lines' = Append(lines, o.line)
                      /\ chunks' = IF step.act = "yield" THEN chunks \o step.chunk ELSE chunks
                      /\ raised' = IF step.act = "raise" THEN step.err ELSE raised
                      /\ ended' = IF step.act = "raise" THEN "failed"
                                  ELSE IF step.act = "stop" THEN "sentinel" ELSE ended
                      /\ resp' = IF step.act \in {"raise", "stop"}
                                 THEN response_after_exit(adapter, resp) ELSE resp
                      /\ pc' = IF step.act \in {"raise", "stop"} THEN "done" ELSE "read"
    /\ UNCHANGED <<call_provider, payload, registry, req, mode, adapter, model_name, retrying, attempts, outcomes, delays,
                   conn, iter, returned, syncRun>>

\* the consumer stops iterating and drops the generator: a started
\* generator is closed, which leaves its with block
Abandon ==
    /\ pc \in {"consume", "read"}
    /\ \E o \in Offered({T("abandon")}) : Answer(o)
    /\ resp' = IF pc = "read" THEN response_after_exit(adapter, resp) ELSE resp
    /\ ended' = "abandoned"
    /\ pc' = "done"
    /\ UNCHANGED <<call_provider, payload, registry, req, mode, adapter, model_name, retrying, attempts, outcomes, delays,
                   conn, iter, lines, chunks, returned, raised, syncRun>>

\* the same request once more through acompletion, against the same answers
StartAsync ==
    /\ pc = "done"
    /\ mode = "sync"
    /\ syncRun' = [done |-> TRUE, returned |-> returned, raised |-> raised,
                   chunks |-> chunks, attempts |-> attempts, iter |-> iter,
                   ended |-> ended]
    /\ mode' = "async"
    /\ pc' = "start"
    /\ adapter' = ""
    /\ call_provider' = <<>>
    /\ payload' = NoPayload
    /\ model_name' = <<>>
    /\ retrying' = FALSE
    /\ attempts' = 0
    /\ outcomes' = <<>>
    /\ delays' = <<>>
    /\ conn' = "none"
    /\ resp' = "none"
    /\ iter' = ""
    /\ lines' = <<>>
    /\ chunks' = <<>>
    /\ returned' = "none"
    /\ raised' = NoErr
    /\ ended' = ""
    /\ pos' = 0
    /\ UNCHANGED <<registry, req, tape>>

Next ==
    \/ \E r \in LateRegistrations : Register(r[1], r[2])
    \/ Dispatch
    \/ AdapterCall
    \/ AdapterPost
    \/ Wait
    \/ StreamOpen
    \/ AsyncFor
    \/ StreamRead(CallLines(adapter, lines))
    \/ Abandon
    \/ StartAsync

Spec == Init /\ [][Next]_vars

(***************************************************************************)
(* Properties of the call (Spec).                                          *)
(***************************************************************************)
Retriable == {"RateLimit", "Timeout"}

\* C1: in a non-streaming call, an invocation of the adapter that fails
\* with anything but RateLimit or Timeout is the last one: its exception is
\* the one the caller gets, at once, whatever num_retries is; when it is
\* the first invocation, the adapter has been invoked exactly once.
C1_OtherFailuresPropagateAtOnce ==
    \A i \in 1..Len(outcomes) :
        (outcomes[i] # NoErr /\ outcomes[i].kind \notin Retriable)
            => /\ i = Len(outcomes)
               /\ attempts = i
               /\ pc = "done"
               /\ raised = outcomes[i]
               /\ returned = "none"

C1_Witness ==
    /\ pc = "done"
    /\ ~req.stream
    /\ req.num_retries >= 2
    /\ attempts = 1
    /\ raised.kind = "BadRequest"

C3_StreamsAreNotRetried ==
    req.stream =>
        /\ ~retrying
        /\ attempts <= 1
        /\ pc # "wait"
        /\ delays = <<>>
        /\ (returned = "stream" /\ raised # NoErr)
               => (pc = "done" /\ attempts = 1 /\ ended = "failed")

C3_Witness ==
    /\ req.stream
    /\ req.num_retries >= 2
    /\ pc = "done"
    /\ Len(chunks) >= 1
    /\ raised.kind = "API"
    /\ attempts = 1

\* C4: every exception that reaches the caller is of one of the six
\* canonical kinds.
C4_OnlyCanonicalErrors ==
    raised # NoErr => raised.kind \in CanonicalKinds

\* C5: a call whose model string the resolver accepts never fails with
\* UnsupportedProvider: every provider the resolver returns is registered.
C5_ResolvedProviderIsRegistered ==
    (pc = "done" /\ parse_model_name(req.model).ok)
        => raised.kind # "UnsupportedProvider"

\* C6: when a call is over (response returned, exception raised, stream
\* read to its end or abandoned), its transport client and its streamed
\* response are released.
C6_TransportReleasedAtCallEnd ==
    pc = "done" => (conn # "open" /\ resp # "open")

\* C10: the asynchronous call ends as the synchronous call of the same
\* request did against the same answers of the environment: the same
\* return, the same chunks, the same exception, after as many invocations.
C10_AsyncEndsAsSync ==
    (mode = "async" /\ pc = "done")
        => /\ returned = syncRun.returned
           /\ raised = syncRun.raised
           /\ chunks = syncRun.chunks
           /\ attempts = syncRun.attempts
           /\ ended = syncRun.ended

(***************************************************************************)
(* The stream readers on their own (SpecStream): a reader that has opened  *)
(* its stream is given lines as the providers send them.  An Anthropic or  *)
(* Bedrock stream is message_start, then blocks (content_block_start and   *)
(* its content_block_delta events), then message_delta; an OpenAI stream   *)
(* is chunks, then [DONE].  Up to MaxNoise lines that belong to no message *)
(* (a line json.loads rejects, a line without the data prefix, a ping      *)
(* event) come anywhere in between.                                        *)
(***************************************************************************)
MaxNoise == 1

NoiseLines(class) ==
    IF class = "BedrockClient" THEN {MalformedLine, DataLine(EvPing)}
    ELSE IF class = "AnthropicClient" THEN {MalformedLine, OtherLine, DataLine(EvPing)}
    ELSE {MalformedLine, OtherLine}

IsNoise(line) == line \in {MalformedLine, OtherLine, DataLine(EvPing)}

\* the events of the message among the lines
MessageEvents(ls) == SelectSeq(ls, LAMBDA l : ~IsNoise(l))

NoiseCount(ls) == Len(ls) - Len(MessageEvents(ls))

Fragments == { <<"a">>, <<"b">> }

AnthropicContinuations(es) ==
    IF es = <<>> THEN {DataLine(EvMessageStart)}
    ELSE LET last == es[Len(es)].ev
         IN  IF last.type = "message_delta" THEN {}
             ELSE {DataLine(EvBlockStart("text")), DataLine(EvBlockStart("tool_use"))}
                  \cup {DataLine(EvMessageDelta("end_turn", u)) : u \in {<<>>, <<2>>}}
                  \cup (IF last.sub \in {"text", "text_delta"}
                        THEN {DataLine(EvBlockDelta("text_delta", f)) : f \in Fragments}
                        ELSE {})
                  \cup (IF last.sub \in {"tool_use", "input_json_delta"}
                        THEN {DataLine(EvBlockDelta("input_json_delta", <<"{">>))}
                        ELSE {})

\* the "usage" objects on offer: all three counts, and one without its total
WireUsages == { WireUsage(<<1>>, <<2>>, <<3>>), WireUsage(<<1>>, <<2>>, <<>>) }

\* the role first, fragments, the chunk with the finish_reason, the chunk
\* with the usage, [DONE]
OpenAIContinuations(es) ==
    {DoneLine}
    \cup (IF es = <<>> THEN {DataLine(EvChunk("assistant", << <<>> >>, <<>>))} ELSE {})
    \cup (IF es # <<>> /\ es[Len(es)].ev.wire_usage # NoWireUsage THEN {}
          ELSE IF es # <<>> /\ es[Len(es)].ev.stop # <<>>
          THEN {DataLine(EvUsageChunk(u)) : u \in WireUsages}
          ELSE {DataLine(EvChunk("", <<>>, <<"stop">>))}
               \cup {DataLine(EvChunk("", <<f>>, <<>>)) : f \in Fragments})

EventLines(class, ls) ==
    IF Len(ls) >= MaxEvents THEN {}
    ELSE (IF class \in {"AnthropicClient", "BedrockClient"}
          THEN AnthropicContinuations(MessageEvents(ls))
          ELSE OpenAIContinuations(MessageEvents(ls)))
         \cup (IF NoiseCount(ls) < MaxNoise THEN NoiseLines(class) ELSE {})

\* a model string each class is reached by
ModelFor(class) ==
    IF class = "OpenAIClient" THEN <<"o","p","e","n","a","i","/","g","p","t">>
    ELSE IF class = "GroqClient" THEN <<"G","r","o","q","/","l","l","a","m","a">>
    ELSE IF class = "AnthropicClient"
    THEN <<"a","n","t","h","r","o","p","i","c","/","c","l","a","u","d","e">>
    ELSE <<"b","e","d","r","o","c","k","/","c","l","a","u","d","e">>

\* the state of a streaming call whose generator has just opened its stream
InitStream ==
    /\ adapter \in ClientClasses
    /\ mode \in IF adapter = "BedrockClient" THEN {"sync"} ELSE {"sync", "async"}
    /\ registry = IF adapter = "OpenAIClient" THEN (S_openai :> adapter) @@ StartupRegistry
                  ELSE IF adapter = "GroqClient" THEN (S_groq :> adapter) @@ StartupRegistry
                  ELSE StartupRegistry
    /\ req \in Requests({ModelFor(adapter)}, {TRUE}, {0}, {OneUserMessage}, {<<>>}, {NoParams})
    /\ pc = "read"
    /\ call_provider = parse_model_name(req.model).provider
    /\ model_name = parse_model_name(req.model).model_name
    /\ payload = prepare_request(adapter, model_name, req)
    /\ retrying = FALSE
    /\ attempts = 1
    /\ outcomes = <<>>
    /\ delays = <<>>
    /\ conn = IF adapter \in HttpClasses THEN "closed" ELSE "open"
    /\ resp = IF adapter \in HttpClasses THEN "open" ELSE "none"
    /\ iter = stream_iterator(adapter, mode)
    /\ lines = <<>>
    /\ chunks = <<>>
    /\ returned = "stream"
    /\ raised = NoErr
    /\ ended = ""
    /\ tape = << T(IF adapter \in HttpClasses THEN "200" ELSE "ok") >>
    /\ pos = 1
    /\ syncRun = [done |-> FALSE, returned |-> "none", raised |-> NoErr, chunks |-> <<>>,
                  attempts |-> 0, iter |-> "", ended |-> ""]

NextStream == StreamRead(EventLines(adapter, lines))

SpecStream == InitStream /\ [][NextStream]_vars

(***************************************************************************)
(* Properties of the stream readers (SpecStream).                          *)
(***************************************************************************)
\* the chunks the well-formed data lines of ls translate to, in order
RECURSIVE WellFormedTranslation(_, _)
WellFormedTranslation(class, ls) ==
    IF ls = <<>> THEN <<>>
    ELSE (IF Head(ls).data /\ Head(ls).payload = "json"
          THEN IF class = "AnthropicClient" THEN anthropic_parse_stream_chunk(Head(ls).ev)
               ELSE openai_parse_stream_chunk(Head(ls).ev)
          ELSE <<>>)
         \o WellFormedTranslation(class, Tail(ls))

\* C7: in the OpenAI/Groq and Anthropic readers a data line that is no JSON
\* is skipped: reading it yields no chunk, raises nothing and leaves the
\* reader in its loop, and the chunks yielded are at every moment the
\* translations of the well-formed data lines read, in their order.
C7_MalformedLineIsSkipped ==
    /\ [](adapter \in HttpClasses => chunks = WellFormedTranslation(adapter, lines))
    /\ [][(pc = "read" /\ adapter \in HttpClasses /\ lines' = Append(lines, MalformedLine))
             => (pc' = "read" /\ chunks' = chunks /\ raised' = NoErr /\ resp' = "open")]_vars

C7_Witness ==
    /\ adapter \in {"OpenAIClient", "GroqClient"}
    /\ Len(lines) >= 3
    /\ lines[2] = MalformedLine
    /\ lines[1] = DataLine(EvChunk("", << <<"a">> >>, <<>>))
    /\ lines[3] = DataLine(EvChunk("", << <<"b">> >>, <<>>))
    /\ Len(chunks) = 2
    /\ chunks[2].content = << <<"b">> >>
    /\ raised = NoErr

\* C8: in the Bedrock reader an event whose bytes are no JSON is skipped:
\* reading it yields no chunk, raises nothing and leaves the reader in its
\* loop.
C8_BedrockSkipsMalformedEvent ==
    [][(pc = "read" /\ adapter = "BedrockClient" /\ lines' = Append(lines, MalformedLine))
          => (pc' = "read" /\ chunks' = chunks /\ raised' = NoErr)]_vars

\* `x or ""`
OrEmpty(opt) == IF opt = <<>> THEN <<>> ELSE opt[1]

\* "".join(chunk.choices[0].delta.content or "" for chunk in chunks)
RECURSIVE FoldContent(_)
FoldContent(cs) ==
    IF cs = <<>> THEN <<>> ELSE OrEmpty(Head(cs).content) \o FoldContent(Tail(cs))

\* the content blocks of the message a sequence of events describes: one
\* block per content_block_start, its text the fragments of its text deltas
RECURSIVE BlocksOf(_)
BlocksOf(es) ==
    IF es = <<>> THEN <<>>
    ELSE LET e == es[Len(es)].ev
             before == BlocksOf(SubSeq(es, 1, Len(es) - 1))
         IN  IF e.type = "content_block_start"
             THEN Append(before, [type |-> e.sub, text |-> <<>>])
             ELSE IF e.type = "content_block_delta" /\ e.sub = "text_delta" /\ before # <<>>
             THEN [before EXCEPT ![Len(before)].text = @ \o OrEmpty(e.text)]
             ELSE before

IsCompleteMessage(es) == es # <<>> /\ es[Len(es)].ev.type = "message_delta"

\* C9: once the Anthropic or Bedrock reader has read the events of a whole
\* message, the contents of the chunks it yielded, concatenated in order,
\* are the text the non-streaming parse gives for the same message (no
\* content counting as the empty text on either side).
C9_StreamFoldIsResponseText ==
    (adapter \in {"AnthropicClient", "BedrockClient"} /\ IsCompleteMessage(MessageEvents(lines)))
        => FoldContent(chunks)
             = OrEmpty(IF adapter = "AnthropicClient"
                       THEN anthropic_parse_response(BlocksOf(MessageEvents(lines)))
                       ELSE bedrock_parse_response(BlocksOf(MessageEvents(lines))))

C9_Witness ==
    /\ adapter = "BedrockClient"
    /\ IsCompleteMessage(MessageEvents(lines))
    /\ FoldContent(chunks) = <<"b", "a">>
    /\ bedrock_parse_response(BlocksOf(MessageEvents(lines))) = << <<"b", "a">> >>

(***************************************************************************)
(* Properties of the retry policy.                                         *)
(***************************************************************************)
\* C11: when every attempt of a retried call failed with RateLimit or
\* Timeout, the exception the caller gets is the one the last attempt
\* raised, unchanged: the same kind, status, model and provider.
C11_LastErrorReraisedUnchanged ==
    ( /\ pc = "done"
      /\ retrying
      /\ outcomes # <<>>
      /\ \A i \in 1..Len(outcomes) : outcomes[i].kind \in Retriable )
        => raised = outcomes[Len(outcomes)]

C11_Witness ==
    /\ pc = "done"
    /\ retrying
    /\ Len(outcomes) = 2
    /\ outcomes[1].kind = "Timeout"
    /\ outcomes[2].kind = "RateLimit"
    /\ raised = RateLimitError(model_name, S_anthropic)

(***************************************************************************)
(* The retry policy on its own (SpecRetry): non-streaming calls of one     *)
(* model with up to MaxAttempts configured attempts, long enough for the   *)
(* waits to reach the cap.                                                 *)
(***************************************************************************)
MaxAttempts == 9

InitRetry ==
    CallStart(Requests({ModelFor("AnthropicClient")}, {FALSE}, 0..MaxAttempts,
                       {OneUserMessage}, {<<>>}, {NoParams}))

NextRetry ==
    \/ Dispatch
    \/ AdapterCall
    \/ AdapterPost
    \/ Wait

SpecRetry == InitRetry /\ [][NextRetry]_vars

\* C12 as stated: the waits between successive attempts start at 1, never
\* exceed 60 and are strictly increasing from one retry to the next, for
\* every configured attempt count.
C12_DelaysStrictlyIncrease ==
    /\ delays # <<>> => delays[1] = 1
    /\ \A i \in 1..Len(delays) : delays[i] <= 60
    /\ \A i \in 1..(Len(delays) - 1) : delays[i] < delays[i + 1]

\* C12 amended: the waits start at 1, never exceed 60, never decrease, and
\* increase strictly from one retry to the next as long as the cap of 60 is
\* not reached; once a wait is 60 the following ones are 60.
C12_DelaysIncreaseUpToCap ==
    /\ Len(delays) = (IF attempts = 0 THEN 0
                      ELSE IF pc = "call" THEN attempts ELSE attempts - 1)
    /\ delays # <<>> => delays[1] = 1
    /\ \A i \in 1..Len(delays) : delays[i] <= 60
    /\ \A i \in 1..(Len(delays) - 1) :
          /\ delays[i] <= delays[i + 1]
          /\ delays[i] < 60 => delays[i] < delays[i + 1]

C12_Witness ==
    /\ pc = "done"
    /\ req.num_retries = 9
    /\ attempts = 9
    /\ delays = <<1, 2, 4, 8, 16, 32, 60, 60>>

(***************************************************************************)
(* The resolver on its own (SpecResolve): calls whose model string is any  *)
(* of ResolveStrings, up to the first invocation of the adapter.           *)
(***************************************************************************)
\* what stands before the first "/"
ResolveHeads ==
    { S_openai, <<"O","p","e","n","A","I">>, <<"A","N","T","H","R","O","P","I","C">>,
      <<"G","r","o","q">>, S_bedrock, <<"z","z","z">>, <<>>, S_gpt,
      <<"a","z","u","r","e">> }

\* what stands after it
ResolveTails ==
    { <<>>, <<"x">>, <<"G","P","T","-","4">>, <<"a","/","B">>, S_claude, <<"/">> }

\* model strings without "/"
BareNames ==
    { S_gpt, <<"G","P","T","4">>, S_o1, <<"O","3","x">>, S_text_embedding,
      <<"C","l","a","u","d","e">>, <<"L","L","a","M","a","3">>, S_mixtral \o <<"X">>,
      S_gemma, <<"f","o","o">>, <<>>, S_openai, S_bedrock, <<"g","p">>,
      <<"x","g","p","t">> }

ResolveStrings ==
    {h \o <<"/">> \o t : h \in ResolveHeads, t \in ResolveTails} \cup BareNames

InitResolve ==
    CallStart(Requests(ResolveStrings, BOOLEAN, {0}, {OneUserMessage}, {<<>>}, {NoParams}))

NextResolve ==
    \/ \E r \in LateRegistrations : Register(r[1], r[2])
    \/ Dispatch
    \/ AdapterCall

SpecResolve == InitResolve /\ [][NextResolve]_vars

\* C13: once parse_model_name has run on a model string that contains "/"
\* and whose part before the first "/" lower-cases to openai, anthropic,
\* groq or bedrock, the provider is that lower-cased part and the model
\* name is what follows the first "/", as given.
C13_PrefixedModelIsSplitAtFirstSlash ==
    \A i \in 1..Len(req.model) :
        ( /\ pc # "start"
          /\ req.model[i] = "/"
          /\ \A j \in 1..(i - 1) : req.model[j] # "/"
          /\ lower(SubSeq(req.model, 1, i - 1)) \in {S_openai, S_anthropic, S_groq, S_bedrock} )
            => /\ call_provider = lower(SubSeq(req.model, 1, i - 1))
               /\ model_name = SubSeq(req.model, i + 1, Len(req.model))

C13_Witness ==
    /\ pc = "post"
    /\ req.model = <<"A","N","T","H","R","O","P","I","C","/","a","/","B">>
    /\ call_provider = S_anthropic
    /\ model_name = <<"a","/","B">>

\* the provider the prefix table gives a lower-cased bare name
PrefixProvider(model_lower) ==
    IF \E q \in {S_gpt, S_o1, S_o3} : startswith(model_lower, q) THEN S_openai
    ELSE IF startswith(model_lower, S_claude) THEN S_anthropic
    ELSE IF \E q \in {S_llama, S_mixtral, S_gemma} : startswith(model_lower, q) THEN S_groq
    ELSE S_openai

C15_UnknownPrefixIsRejected ==
    \A i \in 1..Len(req.model) :
        ( /\ pc # "start"
          /\ req.model[i] = "/"
          /\ \A j \in 1..(i - 1) : req.model[j] # "/"
          /\ lower(SubSeq(req.model, 1, i - 1)) \notin {S_openai, S_anthropic, S_groq, S_bedrock} )
            => /\ pc = "done"
               /\ raised = UnsupportedProviderError(lower(SubSeq(req.model, 1, i - 1)), req.model)
               /\ call_provider = <<>>
               /\ adapter = ""
               /\ attempts = 0
               /\ ~payload.prepared
               /\ conn = "none"
               /\ tape = <<>>

C15_Witness ==
    /\ pc = "done"
    /\ req.model = <<"g","p","t","/","c","l","a","u","d","e">>
    /\ raised.kind = "UnsupportedProvider"
    /\ raised.provider = S_gpt

(***************************************************************************)
(* Properties of the error classification (Spec).  In a non-streaming call *)
(* the i-th answer of the transport is that of the i-th invocation; in a   *)
(* streaming call the first answer is that of opening the stream.          *)
(***************************************************************************)
KindOfStatus(k) ==
    CASE k = "401" -> "Authentication" [] k = "400" -> "BadRequest"
      [] k = "429" -> "RateLimit" [] k = "504" -> "Timeout" [] OTHER -> "API"

\* C16: in the OpenAI, Groq and Anthropic adapters a response whose status
\* is not 200 is never taken for a success and raises the exception of its
\* status: 401 Authentication, 400 BadRequest, 429 RateLimit, 504 Timeout,
\* any other status API; in a non-streaming invocation and at the opening
\* of a stream alike.
C16_StatusDecidesErrorKind ==
    adapter \in HttpClasses =>
        /\ ~req.stream =>
              \A i \in 1..Len(outcomes) :
                  tape[i].k \in HttpStatuses \ {"200"}
                      => /\ outcomes[i].kind = KindOfStatus(tape[i].k)
                         /\ i = Len(outcomes) => returned # "response"
        /\ (req.stream /\ pos >= 1 /\ tape[1].k \in HttpStatuses \ {"200"})
              => /\ pc = "done"
                 /\ raised.kind = KindOfStatus(tape[1].k)
                 /\ lines = <<>>
                 /\ chunks = <<>>

C16_Witness ==
    /\ adapter = "AnthropicClient"
    /\ ~req.stream
    /\ pc = "done"
    /\ Len(outcomes) = 2
    /\ tape[1].k = "504"
    /\ outcomes[1].kind = "Timeout"
    /\ tape[2].k = "404"
    /\ raised = APIError(404, model_name, S_anthropic)
    /\ returned = "none"

KindOfBedrockMessage(msg) ==
    CASE msg \in {"AuthenticationException", "UnrecognizedClientException"} -> "Authentication"
      [] msg = "ValidationException" -> "BadRequest"
      [] msg = "ThrottlingException" -> "RateLimit"
      [] OTHER -> "API"

\* C17: the Bedrock adapter raises, for an exception of boto3, the kind its
\* message names (AuthenticationException or UnrecognizedClientException:
\* Authentication, ValidationException: BadRequest, ThrottlingException:
\* RateLimit, anything else: API), in a non-streaming invocation and in a
\* streaming call alike.
C17_BedrockMessageDecidesErrorKind ==
    adapter = "BedrockClient" =>
        /\ ~req.stream =>
              \A i \in 1..Len(outcomes) :
                  tape[i].k \in BedrockExceptions
                      => outcomes[i].kind = KindOfBedrockMessage(tape[i].k)
        /\ (req.stream /\ pos >= 1 /\ tape[1].k \in BedrockExceptions)
              => raised.kind = KindOfBedrockMessage(tape[1].k)

(***************************************************************************)
(* Request preparation on its own (SpecPrepare): Anthropic and Bedrock     *)
(* calls with any list of up to MaxMessages messages, with and without a   *)
(* response format, up to the end of their first exchange.                 *)
(***************************************************************************)
MaxMessages == 3

MessageChoices ==
    { Message("system", <<>>), Message("system", <<"s">>), Message("system", <<"t">>),
      Message("user", <<"u">>), Message("assistant", <<"a">>) }

MessageLists == UNION { [1..n -> MessageChoices] : n \in 0..MaxMessages }

InitPrepare ==
    CallStart(Requests({ModelFor("AnthropicClient"), ModelFor("BedrockClient")}, BOOLEAN, {0},
                       MessageLists, {<<>>, <<"json_object">>}, {NoParams}))

NextPrepare ==
    \/ Dispatch
    \/ AdapterCall
    \/ AdapterPost
    \/ StreamOpen

SpecPrepare == InitPrepare /\ [][NextPrepare]_vars

HasSystemMessage(messages) == \E i \in 1..Len(messages) : messages[i].role = "system"

\* C18 as stated: the payload an Anthropic or Bedrock invocation prepares
\* for a request without a system-role message has no system field,
\* whatever the other parameters of the request are.
C18_NoSystemMessageNoSystemField ==
    ( /\ payload.prepared
      /\ adapter \in {"AnthropicClient", "BedrockClient"}
      /\ ~HasSystemMessage(req.messages) )
        => payload.system = <<>>

\* C18 amended: the payload an Anthropic or Bedrock invocation prepares for
\* a request without a system-role message has no system field, except that
\* of an Anthropic request with a response format, whose system field is
\* the JSON-only instruction alone (without its leading line breaks); the
\* messages are passed as given.
C18_NoSystemFieldButForJsonInstruction ==
    ( /\ payload.prepared
      /\ adapter \in {"AnthropicClient", "BedrockClient"}
      /\ ~HasSystemMessage(req.messages) )
        => /\ payload.system = IF adapter = "AnthropicClient" /\ req.response_format # <<>>
                               THEN << <<"J">> >> ELSE <<>>
           /\ payload.messages = req.messages

C18_Witness ==
    /\ payload.prepared
    /\ adapter = "AnthropicClient"
    /\ req.messages = << Message("user", <<"u">>), Message("assistant", <<"a">>) >>
    /\ req.response_format = <<"json_object">>
    /\ payload.system = << <<"J">> >>

\* C19: the payload an Anthropic or Bedrock invocation prepares for a
\* request with a system-role message has a system field, which holds the
\* content of that message, and its messages are the messages of the
\* request that are not system-role, in their order.
C19_SystemMessageBecomesSystemField ==
    ( /\ payload.prepared
      /\ adapter \in {"AnthropicClient", "BedrockClient"}
      /\ HasSystemMessage(req.messages) )
        => /\ payload.system # <<>>
           /\ \E i \in 1..Len(req.messages) :
                 /\ req.messages[i].role = "system"
                 /\ payload.system = << req.messages[i].content >>
           /\ payload.messages = SelectSeq(req.messages, LAMBDA m : m.role # "system")

(***************************************************************************)
(* Properties of what the exceptions carry (Spec).                         *)
(***************************************************************************)
\* C20: every exception of the six kinds that reaches the caller carries
\* the model string the caller gave the entry point and the name of the
\* provider that string resolves to, whether an adapter, the resolver or
\* the registry raised it.
C20_ErrorCarriesModelAndProvider ==
    (raised # NoErr /\ raised.kind \in CanonicalKinds)
        => /\ raised.model = req.model
           /\ raised.provider = parse_model_name(req.model).provider

(***************************************************************************)
(* The transport client of a streaming call, and the attempts of a retried *)
(* call (specification Spec).                                              *)
(***************************************************************************)
\* C22: for a streaming call of the OpenAI, Groq or Anthropic adapter, the
\* transport client the call opened is still open whenever the consumer
\* reads from the returned sequence, that is from the moment the sequence
\* is returned until the consumer is done with it.
C22_ClientOpenWhileConsumerReads ==
    (adapter \in HttpClasses /\ req.stream /\ pc \in {"consume", "read"}) => conn = "open"

\* C30: in a retried non-streaming call the attempts are strictly
\* sequential (attempt k+1 starts only after attempt k failed with a
\* retriable error and its delay elapsed), the first successful attempt's
\* response is returned, the adapter is not invoked after it, and no error
\* of an earlier attempt is surfaced.
C30_FirstSuccessEndsTheAttempts ==
    ~req.stream =>
        /\ \A i \in 1..(Len(outcomes) - 1) : outcomes[i].kind \in Retriable
        /\ Len(outcomes) \in {attempts - 1, attempts}
        /\ Len(outcomes) = attempts - 1 <=> pc = "post"
        /\ Len(delays) = IF pc = "call" THEN attempts ELSE Max(attempts - 1, 0)
        /\ \A i \in 1..Len(delays) : delays[i] >= WaitMin
        /\ pc = "wait" => outcomes[attempts].kind \in Retriable
        /\ returned = "response" <=>
               (pc = "done" /\ attempts > 0 /\ outcomes[attempts] = NoErr)
        /\ returned = "response" => raised = NoErr

\* a retried call whose second attempt succeeded after a rate limit and
\* one delay
C30_Witness ==
    /\ mode = "sync" /\ pc = "done" /\ retrying /\ ~req.stream
    /\ returned = "response" /\ raised = NoErr
    /\ attempts = 2
    /\ outcomes[1].kind = "RateLimit"
    /\ delays = << wait_exponential(1) >>

(***************************************************************************)
(* More properties of the stream readers (SpecStream).                     *)
(***************************************************************************)
\* the positions, in order, of the lines of ls that class translates to a
\* chunk: for line in response.iter_lines(): ... yield chunk
YieldingLines(class, ls) ==
    SelectSeq([i \in 1..Len(ls) |-> i],
              LAMBDA i : read_line(class, ls[i], model_name).act = "yield")

\* C23: in the OpenAI/Groq reader the [DONE] line ends the sequence without
\* a chunk and no line after it is read or translated; a line without the
\* data prefix gives no chunk and does not end the sequence.
C23_DoneEndsTheSequence ==
    /\ [](adapter \in {"OpenAIClient", "GroqClient"}
            => \A i \in 1..Len(lines) :
                  lines[i] = DoneLine
                      => /\ i = Len(lines)
                         /\ pc = "done" /\ ended = "sentinel" /\ raised = NoErr
                         /\ Len(chunks) = Len(YieldingLines(adapter, SubSeq(lines, 1, i - 1))))
    /\ [][(pc = "read" /\ adapter \in {"OpenAIClient", "GroqClient"})
             => /\ lines' = Append(lines, DoneLine) => (chunks' = chunks /\ pc' = "done")
                /\ lines' = Append(lines, OtherLine)
                      => (chunks' = chunks /\ pc' = "read" /\ raised' = NoErr
                          /\ ended' = ended /\ resp' = "open")]_vars

\* a fragment, a line without the prefix, a second fragment, then [DONE]
C23_Witness ==
    /\ adapter \in {"OpenAIClient", "GroqClient"}
    /\ lines = << DataLine(EvChunk("", << <<"a">> >>, <<>>)), OtherLine,
                  DataLine(EvChunk("", << <<"b">> >>, <<>>)), DoneLine >>
    /\ Len(chunks) = 2
    /\ chunks[2].content = << <<"b">> >>
    /\ pc = "done" /\ ended = "sentinel" /\ raised = NoErr

\* C24: the Bedrock stream translator gives for every event what the
\* Anthropic stream translator gives for it: the chunks a Bedrock stream
\* has yielded are the Anthropic translations of the events read.
C24_BedrockTranslatesAsAnthropic ==
    (adapter = "BedrockClient" /\ raised = NoErr)
        => chunks = WellFormedTranslation("AnthropicClient", lines)

\* an event the Anthropic and Bedrock translators have no chunk for: an
\* unknown event type, a block that is no text block, a delta that is no
\* text delta
IsIgnoredEvent(line) ==
    /\ line.data /\ line.payload = "json"
    /\ \/ line.ev.type \notin {"message_start", "content_block_start",
                                "content_block_delta", "message_delta"}
       \/ line.ev.type = "content_block_start" /\ line.ev.sub # "text"
       \/ line.ev.type = "content_block_delta" /\ line.ev.sub # "text_delta"

\* C25: in the Anthropic and Bedrock readers an event of an unknown type, a
\* block that is no text block and a delta that is no text delta give no
\* chunk and no error and leave the reader in its loop, so later events are
\* still translated; there are at most as many chunks as events read, and
\* the chunks keep the order of their events.
C25_IgnoredEventIsSkipped ==
    /\ [](adapter \in {"AnthropicClient", "BedrockClient"}
            => LET yielding == YieldingLines(adapter, lines)
               IN  /\ Len(chunks) <= Len(lines)
                   /\ Len(chunks) = Len(yielding)
                   /\ \A j \in 1..Len(chunks) :
                         << chunks[j] >>
                           = read_line(adapter, lines[yielding[j]], model_name).chunk)
    /\ [][(pc = "read" /\ adapter \in {"AnthropicClient", "BedrockClient"}
           /\ Len(lines') = Len(lines) + 1 /\ IsIgnoredEvent(lines'[Len(lines')]))
             => (chunks' = chunks /\ raised' = NoErr /\ pc' = "read" /\ ended' = ended)]_vars

\* a tool_use block and its delta, then a text block whose fragment is
\* translated
C25_Witness ==
    /\ adapter = "AnthropicClient"
    /\ lines = << DataLine(EvMessageStart), DataLine(EvBlockStart("tool_use")),
                  DataLine(EvBlockDelta("input_json_delta", <<"{">>)),
                  DataLine(EvBlockStart("text")),
                  DataLine(EvBlockDelta("text_delta", <<"a">>)) >>
    /\ Len(chunks) = 3
    /\ chunks[3].content = << <<"a">> >>
    /\ raised = NoErr

\* C26: in the Anthropic and Bedrock streams a chunk has a finish_reason
\* only if it is the chunk of a message_delta event: the chunk of every
\* other event has none.
C26_FinishReasonOnlyOnMessageDelta ==
    adapter \in {"AnthropicClient", "BedrockClient"}
        => LET yielding == YieldingLines(adapter, lines)
           IN  /\ Len(chunks) = Len(yielding)
               /\ \A j \in 1..Len(chunks) :
                     lines[yielding[j]].ev.type # "message_delta"
                         => chunks[j].finish_reason = <<>>

\* a whole message: its last chunk alone has the finish_reason
C26_Witness ==
    /\ adapter = "AnthropicClient"
    /\ Len(lines) = 4
    /\ lines[3] = DataLine(EvBlockDelta("text_delta", <<"a">>))
    /\ lines[4].ev.type = "message_delta"
    /\ Len(chunks) = 4
    /\ chunks[3].content = << <<"a">> >> /\ chunks[3].finish_reason = <<>>
    /\ chunks[4].finish_reason = <<"end_turn">>

\* C27: in every chunk that carries a usage the total is the prompt count
\* plus the completion count, also when the "usage" object of an OpenAI or
\* Groq chunk lacks one of its counts (a missing count is 0).
C27_TotalIsPromptPlusCompletion ==
    \A j \in 1..Len(chunks) :
        chunks[j].usage # <<>>
            => chunks[j].usage[1].total_tokens
                 = chunks[j].usage[1].prompt_tokens + chunks[j].usage[1].completion_tokens

(***************************************************************************)
(* The request parameters on their own (SpecParams): calls of every        *)
(* adapter whose temperature, max_tokens, tools, tool_choice and extra     *)
(* keyword parameters vary, up to the payload the adapter prepares.        *)
(***************************************************************************)
\* a model of every adapter, and an o1 model of the OpenAI adapter
ParamModels == {ModelFor(class) : class \in ClientClasses} \cup {S_o1}

\* max_tokens: None, 0, a limit
MaxTokensChoices == { <<>>, <<0>>, <<5>> }

\* tool_choice: None, the strings "auto", "required", "any" and "none", and
\* a dict that names a tool
ToolChoiceChoices ==
    { <<>> } \cup { << ToolChoiceStr(v) >> : v \in {"auto", "required", "any", "none"} }
    \cup { << ToolChoiceDict("tool") >> }

\* the extra keyword parameters: none, system=..., top_k=..., both
KwargsChoices == [system : { <<>>, << <<"k">> >> }, top_k : { <<>>, <<5>> }]

ParamChoices ==
    [temperature : { <<>>, <<0>> }, max_tokens : MaxTokensChoices,
     tools : { <<>>, << <<>> >>, << << Tool("f", "p") >> >> }, tool_choice : ToolChoiceChoices,
     kwargs : KwargsChoices]

ParamMessages ==
    { OneUserMessage, << Message("system", <<"s">>), Message("user", <<"u">>) >> }

InitParams ==
    CallStart(Requests(ParamModels, BOOLEAN, {0}, ParamMessages, {<<>>}, ParamChoices))

NextParams ==
    \/ \E r \in LateRegistrations : Register(r[1], r[2])
    \/ Dispatch
    \/ AdapterCall
    \/ AdapterPost
    \/ StreamOpen

SpecParams == InitParams /\ [][NextParams]_vars

\* C21: in every adapter the extra keyword parameters of the call are
\* merged into the payload after the canonical fields: the payload an
\* invocation prepares holds, under each key the caller gave as an extra
\* parameter, the value the caller gave.
C21_ExtraParametersWin ==
    payload.prepared
        => /\ req.kwargs.system # <<>> => payload.system = req.kwargs.system
           /\ req.kwargs.top_k # <<>> => payload.top_k = req.kwargs.top_k

\* C28: the payload an Anthropic or Bedrock invocation prepares has a
\* max_tokens field, which is the caller's max_tokens whenever the caller
\* gave one, 0 included, and 4096 only when the caller gave none.
C28_MaxTokensIsTheCallersOr4096 ==
    (payload.prepared /\ adapter \in {"AnthropicClient", "BedrockClient"})
        => payload.max_tokens = IF req.max_tokens # <<>> THEN req.max_tokens ELSE <<4096>>

\* C29: in the payload of an Anthropic or Bedrock invocation a tool_choice
\* of "auto" is {type: auto}, "required" or "any" is {type: any}, a dict is
\* sent as it is, and a tool_choice the caller gave is never missing from
\* the payload.
C29_ToolChoiceIsMappedNeverDropped ==
    (payload.prepared /\ adapter \in {"AnthropicClient", "BedrockClient"}
     /\ req.tool_choice # <<>>)
        => /\ payload.tool_choice # <<>>
           /\ req.tool_choice = << ToolChoiceStr("auto") >>
                 => payload.tool_choice = << ToolChoiceDict("auto") >>
           /\ req.tool_choice \in { << ToolChoiceStr("required") >>, << ToolChoiceStr("any") >> }
                 => payload.tool_choice = << ToolChoiceDict("any") >>
           /\ ~req.tool_choice[1].str => payload.tool_choice = req.tool_choice
====
